---- MODULE Spec2Model ----
(***************************************************************************)
(* Decision-and-dedup pipeline of the agent orchestration platform:       *)
(* log-ingest worker -> task queue -> eval worker -> HITL queue ->         *)
(* approval console -> execution queue -> exec worker, with the durable    *)
(* store (S3) the workers write their records to.                          *)
(*                                                                         *)
(* Python values are modelled as follows.  A dict is a function whose      *)
(* domain is the set of its keys (a record); a missing key is a key not in *)
(* the domain.  A string is a string; None in a string-valued place is     *)
(* PyNone.  A number is Num(n) with n in thousandths (0.85 is Num(850));   *)
(* None in a number- or dict-valued place is NoneV.  The timestamps that   *)
(* no code reads (created_at, evaluated_at, decided_at) are left out of    *)
(* the records; LastModified and executed_at, which the Suppression Index  *)
(* reads, are kept.                                                        *)
(***************************************************************************)
EXTENDS Integers, Sequences, FiniteSets, TLC

VARIABLES
    fn_arg,      \* argument of the pure function under check
    fn_ret,      \* its result
    fn_called,   \* "" before the call, the function's name after it
    now,         \* the clock (utc), in minutes
    issued,      \* number of (task_id, trace_id) pairs new_id() has issued
    evals_issued,           \* number of eval_id values new_id() has issued
    task_queue,             \* messages on the agent task queue
    s3,                     \* the bucket: prefix -> task_id -> object
    hitl_queue,             \* messages on the HITL approval queue
    hitl_inflight,          \* those received and hidden by the visibility timeout
    exec_queue,             \* messages on the execution queue
    messages,               \* HITLApprovalGUI.messages
    selected_index,         \* HITLApprovalGUI.selected_index
    gui_pc,                 \* position of the console inside approve_selected
    ingest_pc,              \* "none", "constructed" once __init__ has run,
                            \* "ran" once run_once has returned, "raised" once
                            \* an exception has left it and ended the process
    exec_pc,                \* how the last exec worker process ended: "none"
                            \* before the first, "returned", or "raised" when
                            \* an exception left run_once
    completed_fingerprints, \* LogIngestWorker.completed_fingerprints
    pending_fingerprints,   \* LogIngestWorker.pending_fingerprints
    load_failed,            \* the "... load failed: <e>" lines __init__ printed
    ingested,               \* history: task_id -> the envelope sent at ingestion
    decisions_made,         \* history: task_id -> number of Approval Decisions issued
                            \* (sent to the execution queue, or archived as a rejection)
    exec_log                \* history: task_id -> execution records written, fallback taken

fn_vars == <<fn_arg, fn_ret, fn_called>>

queue_vars == <<task_queue, hitl_queue, hitl_inflight, exec_queue>>

gui_vars == <<messages, selected_index, gui_pc>>

ingest_vars == <<ingest_pc, completed_fingerprints, pending_fingerprints, load_failed>>

history_vars == <<ingested, decisions_made, exec_log>>

pipe_vars == <<now, issued, evals_issued, s3, queue_vars, gui_vars, ingest_vars,
               exec_pc, history_vars>>

vars == <<fn_vars, pipe_vars>>

-----------------------------------------------------------------------------
(* Python values *)

PyNone == "<None>"
NoneV == [py |-> "None"]
EmptyDict == [k \in {} |-> 0]
Num(n) == [num |-> n]

\* d.get(k) for a string-valued key
GetS(d, k) == IF k \in DOMAIN d THEN d[k] ELSE PyNone
\* d.get(k, dflt) for a string-valued key
GetSD(d, k, dflt) == IF k \in DOMAIN d THEN d[k] ELSE dflt
\* d.get(k) for a number- or dict-valued key
GetV(d, k) == IF k \in DOMAIN d THEN d[k] ELSE NoneV
\* d.get(k, dflt) for a number- or dict-valued key
GetVD(d, k, dflt) == IF k \in DOMAIN d THEN d[k] ELSE dflt

\* truth value of a string-valued and of a dict-valued expression
FalsyS(s) == s = PyNone \/ s = ""
FalsyV(v) == v = NoneV \/ DOMAIN v = {}
\* x or y
OrS(x, y) == IF FalsyS(x) THEN y ELSE x
OrV(x, y) == IF FalsyV(x) THEN y ELSE x

\* {**d1, **d2}
Join(d1, d2) ==
    [x \in DOMAIN d1 \cup DOMAIN d2 |-> IF x \in DOMAIN d2 THEN d2[x] ELSE d1[x]]
\* the dicts that either lack key k or map it to one of vals
OptKey(k, vals) == {EmptyDict} \cup {[x \in {k} |-> v] : v \in vals}

-----------------------------------------------------------------------------
(* Text: str(), str.lower() and str.strip() on the strings the model uses *)

\* str(x)
Str(x) == IF x = PyNone THEN "None" ELSE x

\* s.lower()
Lower(s) ==
    CASE s = "Disk Full" -> "disk full"
      [] s = " Disk Full " -> " disk full "
      [] s = "Rotate Logs" -> "rotate logs"
      [] s = "Rotate Log" -> "rotate log"
      [] s = "Disk Fall" -> "disk fall"
      [] s = "Cpu" -> "cpu"
      [] s = "None" -> "none"
      [] s = "High" -> "high"
      [] s = "Build distributed agent bus using SQS"
            -> "build distributed agent bus using sqs"
      [] OTHER -> s

\* s.strip()
Strip(s) ==
    CASE s = " Disk Full " -> "Disk Full"
      [] s = " disk full " -> "disk full"
      [] OTHER -> s

\* k in s, for strings
Contains(s, k) ==
    \E i \in 1..(Len(s) - Len(k) + 1) : SubSeq(s, i, i + Len(k) - 1) = k

\* hashlib.sha256(base.encode()).hexdigest(), taken to be free of collisions:
\* the digest determines the string it was computed from
Sha256(base) == "sha256:" \o base

-----------------------------------------------------------------------------
(* Fingerprint: the assignment of the log-ingest worker and the fallback of *)
(* the exec worker                                                          *)

_stable_text(s) == IF s = PyNone THEN "" ELSE Strip(Str(s))

\* the digest as it would be if the action were left out of its input
_idea_fingerprint_no_action(idea) ==
    LET title == Lower(_stable_text(GetS(idea, "title")))
        desc == Lower(_stable_text(GetS(idea, "description")))
    IN  Sha256(title \o "\n" \o desc)

_idea_fingerprint(idea) ==
    LET title == Lower(_stable_text(GetS(idea, "title")))
        action == Lower(_stable_text(GetS(idea, "recommended_action")))
        desc == Lower(_stable_text(GetS(idea, "description")))
    IN  Sha256(title \o "\n" \o action \o "\n" \o desc)

idea_fingerprint(idea) ==
    LET title == Strip(Lower(Str(GetSD(idea, "title", ""))))
        action == Strip(Lower(Str(GetSD(idea, "recommended_action", ""))))
        desc == Strip(Lower(Str(GetSD(idea, "description", ""))))
    IN  Sha256(title \o "\n" \o action \o "\n" \o desc)

-----------------------------------------------------------------------------
(* Evaluation Engine.  Sub-scores, confidence and risk are in thousandths,  *)
(* weights in hundredths, so a weighted score is in units of 1/100000.      *)

ScoreOne == 100000

\* round(x, 3) of a score in 1/100000, to thousandths (ties to even)
Round3(x) ==
    LET q == x \div 100
        r == x % 100
    IN  IF r > 50 \/ (r = 50 /\ q % 2 = 1) THEN q + 1 ELSE q

\* max(0.0, min(1.0, x))
Clamp(x) == IF x < 0 THEN 0 ELSE IF x > ScoreOne THEN ScoreOne ELSE x

_score_feasibility(idea) ==
    IF \E k \in {"sqs", "lambda", "api", "queue"} : Contains(idea, k)
    THEN 900 ELSE 600

_score_alignment(idea) ==
    IF \E k \in {"agent", "distributed", "orchestration"} : Contains(idea, k)
    THEN 950 ELSE 700

_score_complexity(idea) ==
    IF \E k \in {"ai", "ml", "blockchain", "crypto"} : Contains(idea, k)
    THEN 700 ELSE 300

_score_cost_flat(idea) == 300 + 0 * Len(idea)

_score_cost(idea) == IF Contains(idea, "distributed") THEN 600 ELSE 300

\* the local variables of _evaluate_rnd: weighted is weighted_score as first
\* assigned, adjusted after the priority step, weighted_score after the clamp
RndLocals(payload) ==
    LET idea_text == Lower(OrS(OrS(GetSD(payload, "idea", ""),
                                   GetSD(payload, "title", "")), ""))
        priority == Lower(OrS(GetS(payload, "priority"), "medium"))
        feasibility == _score_feasibility(idea_text)
        alignment == _score_alignment(idea_text)
        complexity == _score_complexity(idea_text)
        cost == _score_cost(idea_text)
        weighted == feasibility * 35 + alignment * 35 - complexity * 15 - cost * 15
        adjusted == IF priority = "high" THEN weighted + 10000
                    ELSE IF priority = "low" THEN weighted - 5000
                    ELSE weighted
    IN  [idea_text |-> idea_text, priority |-> priority,
         feasibility |-> feasibility, alignment |-> alignment,
         complexity |-> complexity, cost |-> cost,
         weighted |-> weighted, adjusted |-> adjusted,
         weighted_score |-> Clamp(adjusted)]

_evaluate_rnd(payload) ==
    LET l == RndLocals(payload)
    IN  [final_decision |-> IF l.weighted_score >= 60000 THEN "EXECUTE" ELSE "REJECT",
         confidence_score |-> Num(Round3(l.weighted_score)),
         scoring |-> [feasibility |-> Num(l.feasibility),
                      alignment |-> Num(l.alignment),
                      complexity_risk |-> Num(l.complexity),
                      resource_cost |-> Num(l.cost)],
         evaluation_model |-> "deterministic_rnd_v2"]

\* values of a numeric field as json.loads gives them: Num(n), NoneV for
\* null, and strings
NumText(n) == [text |-> "0." \o <<"0", "1", "2", "3", "4", "5", "6", "7", "8", "9">>[n \div 100 + 1]]
NotANumber == [text |-> "high"]

\* float(v): the exception it raises, "" when it returns
FloatRaises(v) ==
    IF v = NoneV THEN "TypeError"
    ELSE IF v = NotANumber THEN "ValueError"
    ELSE ""

\* float(v) in thousandths, for a number and for the text of one
Float(v) ==
    IF "num" \in DOMAIN v THEN v.num
    ELSE CHOOSE n \in {0, 100, 200, 300, 400, 500, 600, 700, 800, 900} : NumText(n) = v

\* what a function that raised hands to its caller
Raised(e) == [raised |-> e]

-----------------------------------------------------------------------------
(* Python floats: IEEE 754 binary64, round to nearest, ties to even *)

\* natural numbers of any size: sequences of limbs, lowest first, with no
\* zero limb at the top
LimbBits == 12
Base == 2 ^ LimbBits

RECURSIVE BigNorm(_)
BigNorm(a) ==
    IF a = <<>> THEN a
    ELSE IF a[Len(a)] = 0 THEN BigNorm(SubSeq(a, 1, Len(a) - 1))
    ELSE a

RECURSIVE BigFromInt(_)
BigFromInt(n) == IF n = 0 THEN <<>> ELSE <<n % Base>> \o BigFromInt(n \div Base)

RECURSIVE BigAddC(_, _, _)
BigAddC(a, b, carry) ==
    IF a = <<>> /\ b = <<>> THEN BigFromInt(carry)
    ELSE LET x == IF a = <<>> THEN 0 ELSE Head(a)
             y == IF b = <<>> THEN 0 ELSE Head(b)
             t == x + y + carry
         IN  <<t % Base>> \o BigAddC(IF a = <<>> THEN a ELSE Tail(a),
                                     IF b = <<>> THEN b ELSE Tail(b),
                                     t \div Base)

BigAdd(a, b) == BigAddC(a, b, 0)

\* a - b, for a >= b
RECURSIVE BigSubB(_, _, _)
BigSubB(a, b, borrow) ==
    IF a = <<>> THEN <<>>
    ELSE LET y == IF b = <<>> THEN 0 ELSE Head(b)
             t == Head(a) - y - borrow
         IN  <<(t + Base) % Base>>
             \o BigSubB(Tail(a), IF b = <<>> THEN b ELSE Tail(b),
                        IF t < 0 THEN 1 ELSE 0)

BigSub(a, b) == BigNorm(BigSubB(a, b, 0))

RECURSIVE BigCmpAt(_, _, _)
BigCmpAt(a, b, i) ==
    IF i = 0 THEN 0
    ELSE IF a[i] > b[i] THEN 1
    ELSE IF a[i] < b[i] THEN -1
    ELSE BigCmpAt(a, b, i - 1)

\* 1, 0 or -1 as a is greater than, equal to or less than b
BigCmp(a, b) ==
    IF Len(a) > Len(b) THEN 1
    ELSE IF Len(a) < Len(b) THEN -1
    ELSE BigCmpAt(a, b, Len(a))

\* a * k for a small k
RECURSIVE BigMulSmallC(_, _, _)
BigMulSmallC(a, k, carry) ==
    IF a = <<>> THEN BigFromInt(carry)
    ELSE LET t == Head(a) * k + carry
         IN  <<t % Base>> \o BigMulSmallC(Tail(a), k, t \div Base)

BigMulSmall(a, k) == IF k = 0 THEN <<>> ELSE BigMulSmallC(a, k, 0)

\* quotient and remainder of a by a small d
RECURSIVE BigDivSmallAt(_, _, _, _, _)
BigDivSmallAt(a, d, i, rem, q) ==
    IF i = 0 THEN [q |-> BigNorm(q), r |-> rem]
    ELSE LET t == rem * Base + a[i]
         IN  BigDivSmallAt(a, d, i - 1, t % d, <<t \div d>> \o q)

BigDivSmall(a, d) == BigDivSmallAt(a, d, Len(a), 0, <<>>)

BigShlLimbs(a, n) == IF a = <<>> THEN a ELSE [i \in 1..n |-> 0] \o a

RECURSIVE BigMulAt(_, _, _)
BigMulAt(a, b, i) ==
    IF i > Len(b) THEN <<>>
    ELSE BigAdd(BigShlLimbs(BigMulSmall(a, b[i]), i - 1), BigMulAt(a, b, i + 1))

BigMul(a, b) == BigMulAt(a, b, 1)

\* a * 2^s and a div 2^s
BigShl(a, s) == BigMulSmall(BigShlLimbs(a, s \div LimbBits), 2 ^ (s % LimbBits))
BigShr(a, s) ==
    IF s \div LimbBits >= Len(a) THEN <<>>
    ELSE BigDivSmall(SubSeq(a, (s \div LimbBits) + 1, Len(a)), 2 ^ (s % LimbBits)).q

RECURSIVE SmallBits(_)
SmallBits(n) == IF n = 0 THEN 0 ELSE 1 + SmallBits(n \div 2)

\* the number of binary digits of a
BitLen(a) == IF a = <<>> THEN 0 ELSE LimbBits * (Len(a) - 1) + SmallBits(a[Len(a)])

BigOdd(a) == a # <<>> /\ a[1] % 2 = 1

\* the integer nearest to num / den, ties to the even one
RoundQuotient(q, twice_rem_cmp_den) ==
    IF twice_rem_cmp_den > 0 \/ (twice_rem_cmp_den = 0 /\ BigOdd(q))
    THEN BigAdd(q, <<1>>)
    ELSE q

\* the integer nearest to a / 2^s, ties to the even one
BigShrRound(a, s) ==
    LET q == BigShr(a, s)
        rem == BigSub(a, BigShl(q, s))
    IN  RoundQuotient(q, BigCmp(BigShl(rem, 1), BigShl(<<1>>, s)))

\* a float is (-1)^neg * m * 2^e with m of at most MantissaBits digits (the
\* values of the model are far from the subnormal and the infinite ones)
MantissaBits == 53

Binary64(neg, m, e) == [neg |-> neg /\ m # <<>>, m |-> m, e |-> e]

\* the float nearest to (-1)^neg * m * 2^e
RoundBinary64(neg, m, e) ==
    LET s == BitLen(m) - MantissaBits
    IN  IF s <= 0 THEN Binary64(neg, m, e)
        ELSE Binary64(neg, BigShrRound(m, s), e + s)

\* the float nearest to num / den (den small): what a decimal literal and a
\* number of a JSON document are read as
RECURSIVE DecimalAt(_, _, _)
DecimalAt(num, den, s) ==
    LET scaled == BigShl(BigFromInt(num), s)
        d == BigDivSmall(scaled, den)
        len == BitLen(d.q)
    IN  IF len < MantissaBits THEN DecimalAt(num, den, s + (MantissaBits - len))
        ELSE IF len > MantissaBits THEN DecimalAt(num, den, s - 1)
        ELSE LET twice == 2 * d.r
             IN  Binary64(FALSE,
                          RoundQuotient(d.q, IF twice > den THEN 1
                                             ELSE IF twice = den THEN 0 ELSE -1),
                          0 - s)

Decimal(num, den) ==
    IF num = 0 THEN Binary64(FALSE, <<>>, 0) ELSE DecimalAt(num, den, 0)

\* 1, 0, -1 as |x| is greater than, equal to or less than |y|
CmpMagnitude(x, y) ==
    LET e == IF x.e < y.e THEN x.e ELSE y.e
    IN  BigCmp(BigShl(x.m, x.e - e), BigShl(y.m, y.e - e))

\* x + y
FloatAdd(x, y) ==
    LET e == IF x.e < y.e THEN x.e ELSE y.e
        a == BigShl(x.m, x.e - e)
        b == BigShl(y.m, y.e - e)
    IN  IF x.neg = y.neg THEN RoundBinary64(x.neg, BigAdd(a, b), e)
        ELSE IF BigCmp(a, b) >= 0 THEN RoundBinary64(x.neg, BigSub(a, b), e)
        ELSE RoundBinary64(y.neg, BigSub(b, a), e)

\* x - y
FloatSub(x, y) == FloatAdd(x, Binary64(~y.neg, y.m, y.e))

\* x * y
FloatMul(x, y) == RoundBinary64(x.neg # y.neg, BigMul(x.m, y.m), x.e + y.e)

\* x < y
FloatLess(x, y) ==
    IF x.neg /\ ~y.neg THEN TRUE
    ELSE IF ~x.neg /\ y.neg THEN FALSE
    ELSE IF x.neg THEN CmpMagnitude(x, y) > 0
    ELSE CmpMagnitude(x, y) < 0

\* min(x, y) and max(x, y) of Python: y unless x < y, x unless y > x
FloatMin(x, y) == IF FloatLess(y, x) THEN y ELSE x
FloatMax(x, y) == IF FloatLess(x, y) THEN y ELSE x

\* round(x, 3) for 0 <= x <= 1, in thousandths: the nearest to the value of
\* x, ties to even
FloatRound3(x) ==
    LET scaled == BigMulSmall(x.m, 1000)
        q == IF x.e >= 0 THEN BigShl(scaled, x.e) ELSE BigShrRound(scaled, 0 - x.e)
    IN  IF q = <<>> THEN 0
        ELSE IF Len(q) = 1 THEN q[1]
        ELSE q[1] + Base * q[2]

\* the score of _evaluate_ops for a confidence and a risk in thousandths:
\* whether it is at least 0.5, and round(score, 3) in thousandths
OpsScore(confidence, severity, risk) ==
    LET bonus == IF severity = "high" THEN Decimal(4, 10)
                 ELSE IF severity = "medium" THEN Decimal(2, 10)
                 ELSE Decimal(5, 100)
        weighted == FloatAdd(Decimal(confidence, 1000), bonus)
        penalised == FloatSub(weighted, FloatMul(Decimal(risk, 1000), Decimal(3, 10)))
        score == FloatMax(Decimal(0, 1), FloatMin(Decimal(1, 1), penalised))
    IN  [at_least_half |-> ~FloatLess(score, Decimal(5, 10)),
         rounded |-> FloatRound3(score)]

\* the confidences and risks that occur in the model, in thousandths, and the
\* scores of _evaluate_ops for them, computed once
OpsNumbers == {0, 175, 200, 250, 300, 450, 500, 800, 1000}
OpsBonusOf(severity) ==
    IF severity = "high" THEN "high"
    ELSE IF severity = "medium" THEN "medium"
    ELSE "low"
OpsScores ==
    [confidence \in OpsNumbers, severity \in {"high", "medium", "low"},
     risk \in OpsNumbers |-> OpsScore(confidence, severity, risk)]

_evaluate_ops(payload) ==
    LET severity == Lower(OrS(GetS(payload, "severity"), "low"))
        risk_arg == GetVD(payload, "operational_risk", Num(300))
        confidence_arg == GetVD(payload, "confidence", Num(500))
    IN
    IF FloatRaises(risk_arg) # "" THEN Raised(FloatRaises(risk_arg))
    ELSE IF FloatRaises(confidence_arg) # "" THEN Raised(FloatRaises(confidence_arg))
    ELSE
    LET risk == Float(risk_arg)
        confidence == Float(confidence_arg)
        score == OpsScores[confidence, OpsBonusOf(severity), risk]
    IN  [final_decision |-> IF score.at_least_half THEN "EXECUTE" ELSE "REJECT",
         confidence_score |-> Num(score.rounded),
         scoring |-> [severity |-> severity,
                      operational_risk |-> Num(risk),
                      llm_confidence |-> Num(confidence)],
         evaluation_model |-> "deterministic_ops_v1"]

\* os.getenv("EVAL_MODE", "auto").lower(): the default
EVAL_MODE == "auto"

Upper(s) ==
    CASE s = "log_suggestion" -> "LOG_SUGGESTION"
      [] s = "rnd_analysis" -> "RND_ANALYSIS"
      [] OTHER -> s

DeterministicEvaluationEngine_evaluate(task_payload) ==
    LET task_type == Upper(OrS(GetS(task_payload, "task_type"), ""))
        payload == OrV(GetVD(task_payload, "payload", EmptyDict), EmptyDict)
    IN  IF EVAL_MODE = "rnd" THEN _evaluate_rnd(payload)
        ELSE IF EVAL_MODE = "ops" THEN _evaluate_ops(payload)
        ELSE IF task_type = "LOG_SUGGESTION" THEN _evaluate_ops(payload)
        ELSE _evaluate_rnd(payload)

-----------------------------------------------------------------------------
(* Execution Gate: ExecWorker.execute_task *)

execute_task_blocklist(envelope) ==
    LET decision == GetS(envelope, "decision")
        evaluation == OrV(GetVD(envelope, "evaluation", EmptyDict), EmptyDict)
    IN  IF decision = "REJECT"
        THEN [status |-> "BLOCKED",
              notes |-> "Execution blocked. Missing explicit HITL approval.",
              evaluation |-> evaluation]
        ELSE [status |-> "COMPLETED",
              notes |-> "Simulated execution complete (HITL approved).",
              approved_by |-> GetS(envelope, "decided_by"),
              evaluation |-> evaluation]

execute_task(envelope) ==
    LET decision == GetS(envelope, "decision")
        evaluation == OrV(GetVD(envelope, "evaluation", EmptyDict), EmptyDict)
    IN  IF decision # "APPROVE"
        THEN [status |-> "BLOCKED",
              notes |-> "Execution blocked. Missing explicit HITL approval.",
              evaluation |-> evaluation]
        ELSE [status |-> "COMPLETED",
              notes |-> "Simulated execution complete (HITL approved).",
              approved_by |-> GetS(envelope, "decided_by"),
              evaluation |-> evaluation]

-----------------------------------------------------------------------------
(* Policy Engine: PolicyEngine.evaluate, numbers in thousandths *)

auto_execute_threshold == 850
max_allowed_complexity_risk == 400
max_allowed_resource_cost == 400

_result(mode, reasoning, evaluation) ==
    [policy_mode |-> mode,
     policy_reasoning |-> reasoning,
     policy_version |-> "v1_deterministic",
     evaluation_snapshot |-> evaluation]

PolicyEngine_evaluate_thresholds_first(evaluation) ==
    LET confidence == GetVD(evaluation, "confidence_score", Num(0))
        breakdown == GetVD(evaluation, "scoring_breakdown", EmptyDict)
        complexity_risk == GetVD(breakdown, "complexity_risk", Num(1000))
        resource_cost == GetVD(breakdown, "resource_cost", Num(1000))
        final_decision == GetS(evaluation, "final_decision")
    IN  IF /\ confidence.num >= auto_execute_threshold
           /\ complexity_risk.num <= max_allowed_complexity_risk
           /\ resource_cost.num <= max_allowed_resource_cost
        THEN _result("AUTO_EXECUTE", <<"Meets confidence and risk thresholds.">>,
                     evaluation)
        ELSE IF final_decision = "REJECT"
        THEN _result("REJECT", <<"Evaluation engine rejected idea.">>, evaluation)
        ELSE _result("REQUIRE_HITL", <<"Does not meet auto execution thresholds.">>,
                     evaluation)

\* evaluate as it would be if an absent complexity_risk or resource_cost
\* counted as 0.0
PolicyEngine_evaluate_absent_is_low(evaluation) ==
    LET confidence == GetVD(evaluation, "confidence_score", Num(0))
        breakdown == GetVD(evaluation, "scoring_breakdown", EmptyDict)
        complexity_risk == GetVD(breakdown, "complexity_risk", Num(0))
        resource_cost == GetVD(breakdown, "resource_cost", Num(0))
        final_decision == GetS(evaluation, "final_decision")
    IN  IF final_decision = "REJECT"
        THEN _result("REJECT", <<"Evaluation engine rejected idea.">>, evaluation)
        ELSE IF /\ confidence.num >= auto_execute_threshold
                /\ complexity_risk.num <= max_allowed_complexity_risk
                /\ resource_cost.num <= max_allowed_resource_cost
        THEN _result("AUTO_EXECUTE", <<"Meets confidence and risk thresholds.">>,
                     evaluation)
        ELSE _result("REQUIRE_HITL", <<"Does not meet auto execution thresholds.">>,
                     evaluation)

PolicyEngine_evaluate(evaluation) ==
    LET confidence == GetVD(evaluation, "confidence_score", Num(0))
        breakdown == GetVD(evaluation, "scoring_breakdown", EmptyDict)
        complexity_risk == GetVD(breakdown, "complexity_risk", Num(1000))
        resource_cost == GetVD(breakdown, "resource_cost", Num(1000))
        final_decision == GetS(evaluation, "final_decision")
    IN  IF final_decision = "REJECT"
        THEN _result("REJECT", <<"Evaluation engine rejected idea.">>, evaluation)
        ELSE IF /\ confidence.num >= auto_execute_threshold
                /\ complexity_risk.num <= max_allowed_complexity_risk
                /\ resource_cost.num <= max_allowed_resource_cost
        THEN _result("AUTO_EXECUTE", <<"Meets confidence and risk thresholds.">>,
                     evaluation)
        ELSE _result("REQUIRE_HITL", <<"Does not meet auto execution thresholds.">>,
                     evaluation)

-----------------------------------------------------------------------------
(* The pipeline: bounds, identifiers, the bucket *)

MaxTasks == 2        \* tasks ingested
MaxPipelineTasks == 1 \* tasks ingested when the stages after evaluation run
MaxPipelineEvals == 1 \* evaluations run when the stages after evaluation run
MaxEvals == 2        \* evaluations run by the eval worker
MaxListed == 2       \* entries of the console's list
MaxDecisions == 2    \* decisions the reviewer takes on one task
MaxExecRuns == 2     \* execution records written for one task
MaxTicks == 1        \* steps of the clock

\* new_id(): the n-th value, all distinct
TaskIdOf(n) == <<"task-1", "task-2", "task-3", "task-4">>[n]
TraceIdOf(n) == <<"trace-1", "trace-2", "trace-3", "trace-4">>[n]
EvalIdOf(n) == <<"eval-1", "eval-2", "eval-3", "eval-4">>[n]

SUPPRESSION_WINDOW_MINUTES == 60
PENDING_SUPPRESSION_MINUTES == 30

\* the clock advances by the length of the shorter window
TickMinutes == PENDING_SUPPRESSION_MINUTES

\* datetime values, and strings no datetime can be parsed from
Time(t) == [time |-> t]
BadTime == [text |-> "yesterday"]

\* put_object(Key = prefix/<task_id>.json, Body = json.dumps(body))
Put(objects, task_id, body) ==
    [t \in DOMAIN objects \cup {task_id} |->
        IF t = task_id
        THEN [Body |-> body, Json |-> "object", LastModified |-> Time(now)]
        ELSE objects[t]]

S3Put(prefix, task_id, body) ==
    [s3 EXCEPT ![prefix] = Put(s3[prefix], task_id, body)]

EmptyBucket ==
    [evaluations |-> EmptyDict, rejections |-> EmptyDict,
     hitl_approvals |-> EmptyDict, hitl_rejections |-> EmptyDict,
     executions |-> EmptyDict]

\* the object names in use, in the order of their keys; "old-1" and "old-2"
\* name records that were in the bucket before the first task of a run
KeyOrder == <<"old-1", "old-2", "task-1", "task-2", "task-3", "task-4">>

\* the keys of a prefix in the order list_objects_v2 returns them
RECURSIVE SortedKeys(_)
SortedKeys(keys) ==
    IF keys = {} THEN <<>>
    ELSE LET k == CHOOSE x \in keys :
                    \A y \in keys : \E i, j \in DOMAIN KeyOrder :
                        KeyOrder[i] = x /\ KeyOrder[j] = y /\ i <= j
         IN  <<k>> \o SortedKeys(keys \ {k})

\* resp["Contents"] of list_objects_v2(Prefix = prefix); get_object raises for
\* the key at position unreadable (for none when that is 0)
Contents(prefix, unreadable) ==
    LET keys == SortedKeys(DOMAIN s3[prefix])
    IN  [i \in 1..Len(keys) |->
            [Key |-> prefix \o "/" \o keys[i] \o ".json",
             LastModified |-> s3[prefix][keys[i]].LastModified,
             Fetch |-> IF i = unreadable THEN "error" ELSE "ok",
             Json |-> s3[prefix][keys[i]].Json,
             Data |-> s3[prefix][keys[i]].Body]]

-----------------------------------------------------------------------------
(* Suppression Index: LogIngestWorker._build_recent_*_fingerprints *)

\* s.upper()
UpperStatus(s) ==
    CASE s = "completed" -> "COMPLETED"
      [] s = "blocked" -> "BLOCKED"
      [] OTHER -> s

\* _safe_json_loads(raw) of a fetched object: "invalid" text gives {}, an
\* "object" gives its dict; any other JSON value ("array") is returned as it
\* is, and the .get that follows raises
_safe_json_loads(obj) == IF obj.Json = "object" THEN obj.Data ELSE EmptyDict

\* the exceptions the two loads catch, as they are printed
ListError == "list_objects_v2"
FetchError == "get_object"
AttributeError == "'list' object has no attribute 'get'"

\* the loop of _build_recent_completed_fingerprints over resp["Contents"];
\* an exception inside it ends the loop with what was collected
RECURSIVE CompletedLoop(_, _, _)
CompletedLoop(contents, cutoff, done) ==
    IF contents = <<>> THEN [fingerprints |-> done, failed |-> ""]
    ELSE
    LET obj == Head(contents)
        rest == Tail(contents)
    IN  IF FalsyS(GetS(obj, "Key")) THEN CompletedLoop(rest, cutoff, done)
        ELSE IF obj.Fetch = "error"
        THEN [fingerprints |-> done, failed |-> FetchError]
        ELSE IF obj.Json = "array"
        THEN [fingerprints |-> done, failed |-> AttributeError]
        ELSE
        LET data == _safe_json_loads(obj)
            status == UpperStatus(_stable_text(GetS(data, "status")))
            executed_at == GetV(data, "executed_at")
            fp == GetS(data, "fingerprint")
        IN  IF status # "COMPLETED" THEN CompletedLoop(rest, cutoff, done)
            ELSE IF /\ executed_at # NoneV
                    /\ ("time" \notin DOMAIN executed_at \/ executed_at.time < cutoff)
            THEN CompletedLoop(rest, cutoff, done)
            ELSE IF ~FalsyS(fp) THEN CompletedLoop(rest, cutoff, done \cup {fp})
            ELSE CompletedLoop(rest, cutoff, done)

\* _build_recent_completed_fingerprints; contents is the listing, or "error"
\* when list_objects_v2 raises
_build_recent_completed_fingerprints(listed, contents) ==
    LET cutoff == now - SUPPRESSION_WINDOW_MINUTES
    IN  IF listed = "error" THEN [fingerprints |-> {}, failed |-> ListError]
        ELSE CompletedLoop(contents, cutoff, {})

\* the loop of _build_recent_pending_fingerprints
RECURSIVE PendingLoop(_, _, _)
PendingLoop(contents, cutoff, pending) ==
    IF contents = <<>> THEN [fingerprints |-> pending, failed |-> ""]
    ELSE
    LET obj == Head(contents)
        rest == Tail(contents)
        lm == GetV(obj, "LastModified")
    IN  IF lm # NoneV /\ lm.time < cutoff THEN PendingLoop(rest, cutoff, pending)
        ELSE IF FalsyS(GetS(obj, "Key")) THEN PendingLoop(rest, cutoff, pending)
        ELSE IF obj.Fetch = "error"
        THEN [fingerprints |-> pending, failed |-> FetchError]
        ELSE IF obj.Json = "array"
        THEN [fingerprints |-> pending, failed |-> AttributeError]
        ELSE
        LET data == _safe_json_loads(obj)
            original == OrV(GetV(data, "original_payload"), EmptyDict)
            payload == OrV(GetV(original, "payload"), EmptyDict)
            fp == GetS(payload, "fingerprint")
        IN  IF ~FalsyS(fp) THEN PendingLoop(rest, cutoff, pending \cup {fp})
            ELSE PendingLoop(rest, cutoff, pending)

_build_recent_pending_fingerprints(listed, contents) ==
    LET cutoff == now - PENDING_SUPPRESSION_MINUTES
    IN  IF listed = "error" THEN [fingerprints |-> {}, failed |-> ListError]
        ELSE PendingLoop(contents, cutoff, {})

\* is_duplicate as it would be if a failed load closed ingestion
is_duplicate_fail_closed(suggestion, completed, pending) ==
    LET fp == _idea_fingerprint(suggestion)
    IN  IF load_failed # {} THEN TRUE
        ELSE IF fp \in completed THEN TRUE
        ELSE IF fp \in pending THEN TRUE
        ELSE FALSE

\* is_duplicate as it would be if it never found a fingerprint
is_duplicate_never(suggestion, completed, pending) ==
    LET fp == _idea_fingerprint(suggestion)
    IN  IF fp \in {} THEN TRUE
        ELSE FALSE

\* is_duplicate, for the two sets of a worker
is_duplicate(suggestion, completed, pending) ==
    LET fp == _idea_fingerprint(suggestion)
    IN  IF fp \in completed THEN TRUE
        ELSE IF fp \in pending THEN TRUE
        ELSE FALSE

-----------------------------------------------------------------------------
(* Ingestion: LogIngestWorker and the producer *)

MaxBatch == 2        \* suggestions the idea generator returns at once

\* ideas as call_llm returns them; the second is the first in other case and
\* spacing, the third scores below the ops threshold
SugDisk ==
    [title |-> "Disk Full", description |-> "d", severity |-> "high",
     operational_risk |-> Num(200), confidence |-> Num(800),
     recommended_action |-> PyNone]
SugDiskAgain == [SugDisk EXCEPT !.title = " disk full "]
SugCpu ==
    [title |-> "Cpu", description |-> "d", severity |-> "low",
     operational_risk |-> Num(500), confidence |-> Num(200),
     recommended_action |-> "Rotate Logs"]

\* the elements of the list call_llm returns: dicts, and a value that is none
Suggestions == {SugDisk, SugDiskAgain, SugCpu, NoneV}

Batches == UNION {[1..n -> Suggestions] : n \in 0..MaxBatch}

\* the message push_task sends, with the n-th pair of fresh ids
push_task(idea, n) ==
    [task_id |-> TaskIdOf(n),
     trace_id |-> TraceIdOf(n),
     task_type |-> "LOG_SUGGESTION",
     agent |-> "log_ingest_worker",
     payload |-> Join(idea, [fingerprint |-> _idea_fingerprint(idea)])]

\* the loop of run_once over the suggestions; n ids are in use, sent are the
\* messages sent so far, sends_left the calls of send_message that succeed
\* before one raises and ends run_once
RECURSIVE RunOnceLoop(_, _, _, _)
RunOnceLoop(suggestions, n, sent, sends_left) ==
    IF suggestions = <<>> THEN [issued |-> n, sent |-> sent, raised |-> FALSE]
    ELSE
    LET suggestion == Head(suggestions)
        rest == Tail(suggestions)
    IN  IF suggestion = NoneV THEN RunOnceLoop(rest, n, sent, sends_left)
        ELSE IF is_duplicate(suggestion, completed_fingerprints, pending_fingerprints)
        THEN RunOnceLoop(rest, n, sent, sends_left)
        ELSE IF sends_left = 0 THEN [issued |-> n, sent |-> sent, raised |-> TRUE]
        ELSE RunOnceLoop(rest, n + 1, sent \cup {push_task(suggestion, n + 1)},
                         sends_left - 1)

\* history: the envelopes sent, by task_id
Remember(sent) ==
    [t \in DOMAIN ingested \cup {m.task_id : m \in sent} |->
        IF t \in DOMAIN ingested THEN ingested[t]
        ELSE CHOOSE m \in sent : m.task_id = t]

\* the line a load prints when it catches e
CompletedFailed(e) == "Completed suppression load failed: " \o e
PendingFailed(e) == "Pending suppression load failed: " \o e

\* LogIngestWorker.__init__ in a new process: the two sets are loaded from the
\* bucket
IngestConstruct ==
    /\ ingest_pc \in {"none", "ran", "raised"}
    /\ \E listed_c, listed_p \in {"ok", "error"} :
       \E unreadable_c \in 0..Cardinality(DOMAIN s3.executions) :
       \E unreadable_p \in 0..Cardinality(DOMAIN s3.evaluations) :
          /\ listed_c = "error" => unreadable_c = 0
          /\ listed_p = "error" => unreadable_p = 0
          /\ LET c == _build_recent_completed_fingerprints(
                          listed_c, Contents("executions", unreadable_c))
                 p == _build_recent_pending_fingerprints(
                          listed_p, Contents("evaluations", unreadable_p))
             IN  /\ completed_fingerprints' = c.fingerprints
                 /\ pending_fingerprints' = p.fingerprints
                 /\ load_failed' =
                        {CompletedFailed(c.failed) : x \in {c.failed} \ {""}}
                        \cup {PendingFailed(p.failed) : x \in {p.failed} \ {""}}
    /\ ingest_pc' = "constructed"
    /\ UNCHANGED <<fn_vars, exec_pc, now, issued, evals_issued, s3, queue_vars, gui_vars,
                   history_vars>>

\* LogIngestWorker.run_once on the suggestions call_llm returns (none when
\* there are no logs or no ideas); the two sets are read, never written
IngestRunOnceOn(batches) ==
    /\ ingest_pc = "constructed"
    /\ \E suggestions \in batches, sends_left \in 0..MaxBatch :
          LET r == RunOnceLoop(suggestions, issued, {}, sends_left)
          IN  /\ r.issued <= MaxTasks
              /\ issued' = r.issued
              /\ task_queue' = task_queue \cup r.sent
              /\ ingested' = Remember(r.sent)
              /\ ingest_pc' = IF r.raised THEN "raised" ELSE "ran"
    /\ UNCHANGED <<completed_fingerprints, pending_fingerprints, load_failed>>
    /\ UNCHANGED <<fn_vars, exec_pc, now, evals_issued, s3, hitl_queue, hitl_inflight,
                   exec_queue, gui_vars, decisions_made, exec_log>>

IngestRunOnce == IngestRunOnceOn(Batches)

\* producer.main: an R&D task, with no fingerprint in its payload
ProducerMain ==
    /\ issued < MaxTasks
    /\ LET task == [task_id |-> TaskIdOf(issued + 1),
                    trace_id |-> TraceIdOf(issued + 1),
                    task_type |-> "RND_ANALYSIS",
                    agent |-> "agent_creator",
                    payload |-> [idea |-> "Build distributed agent bus using SQS",
                                 priority |-> "high"]]
       IN  /\ task_queue' = task_queue \cup {task}
           /\ ingested' = Remember({task})
    /\ issued' = issued + 1
    /\ UNCHANGED <<fn_vars, exec_pc, now, evals_issued, s3, hitl_queue, hitl_inflight,
                   exec_queue, gui_vars, ingest_vars, decisions_made, exec_log>>

\* time passes
Tick ==
    /\ now < MaxTicks * TickMinutes
    /\ now' = now + TickMinutes
    /\ UNCHANGED <<fn_vars, exec_pc, issued, evals_issued, s3, queue_vars, gui_vars,
                   ingest_vars, history_vars>>

-----------------------------------------------------------------------------
(* Evaluation stage: EvalWorker.run_once *)

\* what a call of a collaborator does: it returns, raises a BotoCoreError, or
\* raises another exception (a ClientError of the service)
CallOutcomes == {"ok", "boto_error", "client_error"}

\* the record as it would be if the trace_id of the message were not taken
EvaluationRecordUntraced(body, engine_result) ==
    Join([eval_id |-> EvalIdOf(evals_issued + 1),
          task_id |-> OrS(GetS(body, "task_id"), "new-id"),
          trace_id |-> "missing-trace",
          evaluated_at |-> Time(now),
          evaluated_by |-> "eval_worker"],
         engine_result)

\* the record written to evaluations/<task_id>.json
EvaluationRecord(body, engine_result) ==
    Join([eval_id |-> EvalIdOf(evals_issued + 1),
          task_id |-> OrS(GetS(body, "task_id"), "new-id"),
          trace_id |-> OrS(GetS(body, "trace_id"), "missing-trace"),
          evaluated_at |-> Time(now),
          evaluated_by |-> "eval_worker"],
         engine_result)

\* the approval packet and the reject packet
StagePacket(stage, evaluation, body) ==
    [task_id |-> evaluation.task_id,
     trace_id |-> evaluation.trace_id,
     stage |-> stage,
     evaluation |-> evaluation,
     original_payload |-> body]

\* one run of run_once that receives msg.  When the engine raises, run_once
\* prints "Engine failure" and returns: nothing is written and the message
\* stays on the queue.  Otherwise write is the outcome of writing the
\* evaluation record, second that of the send to the HITL queue or of writing
\* the rejection record, delete that of delete_message.  _write_s3_json and
\* _send_hitl swallow a BotoCoreError; any other exception ends run_once.
\* outcomes are the outcomes the collaborators can have.
EvalRunOnceOn(outcomes) ==
    /\ evals_issued < MaxEvals
    /\ \E msg \in task_queue :
          LET body == msg IN
          \E engine_result \in {DeterministicEvaluationEngine_evaluate(body)} :
          IF "raised" \in DOMAIN engine_result
          THEN UNCHANGED <<s3, hitl_queue, task_queue, evals_issued>>
          ELSE
          \E write, second, delete \in outcomes :
             /\ write = "client_error" => second = "ok"
             /\ (write = "client_error" \/ second = "client_error") => delete = "ok"
             /\ delete # "boto_error"
             /\ LET evaluation == EvaluationRecord(body, engine_result)
                    task_id == evaluation.task_id
                    final_decision == GetSD(engine_result, "final_decision", "REJECT")
                    execute == final_decision = "EXECUTE"
                    stored == IF write = "ok"
                              THEN S3Put("evaluations", task_id, evaluation)
                              ELSE s3
                    reached_second == write # "client_error"
                    reached_delete == reached_second /\ second # "client_error"
                IN  /\ s3' = IF reached_second /\ ~execute /\ second = "ok"
                             THEN [stored EXCEPT !.rejections =
                                      Put(stored.rejections, task_id,
                                          StagePacket("rejected", evaluation, body))]
                             ELSE stored
                    /\ hitl_queue' = IF reached_second /\ execute /\ second = "ok"
                                     THEN hitl_queue \cup
                                          {StagePacket("hitl", evaluation, body)}
                                     ELSE hitl_queue
                    /\ task_queue' = IF reached_delete /\ delete = "ok"
                                     THEN task_queue \ {msg}
                                     ELSE task_queue
             /\ evals_issued' = evals_issued + 1
    /\ UNCHANGED <<fn_vars, exec_pc, now, issued, hitl_inflight, exec_queue, gui_vars,
                   ingest_vars, history_vars>>

EvalRunOnce == EvalRunOnceOn(CallOutcomes)

-----------------------------------------------------------------------------
(* Approval console: HITLApprovalGUI *)

\* how often a task has been decided, or its execution record written
Count(log, task_id) == IF task_id \in DOMAIN log THEN log[task_id].n ELSE 0

Counted(log, task_id, flag) ==
    [t \in DOMAIN log \cup {task_id} |->
        IF t = task_id THEN [n |-> Count(log, task_id) + 1, flag |-> flag]
        ELSE log[t]]

_extract_title(payload) ==
    LET p == GetVD(payload, "original_payload", payload)
        inner == GetVD(p, "payload", EmptyDict)
    IN  Str(OrS(OrS(OrS(GetS(inner, "title"), GetS(inner, "idea")),
                    GetS(payload, "stage")), "pending"))

\* the entry poll_queue appends for a received message
ListEntry(m) ==
    [raw |-> m,
     payload |-> m,
     task_id |-> GetSD(m, "task_id", "unknown-task"),
     trace_id |-> GetSD(m, "trace_id", "unknown-trace"),
     title |-> _extract_title(m)]

\* poll_queue: a visible message is received, hidden for the visibility
\* timeout and appended to the list (a poll that receives several appends
\* them one after the other)
PollQueue ==
    /\ gui_pc.at = "idle"
    /\ Len(messages) < MaxListed
    /\ \E m \in hitl_queue \ hitl_inflight :
          /\ hitl_inflight' = hitl_inflight \cup {m}
          /\ messages' = Append(messages, ListEntry(m))
    /\ UNCHANGED <<fn_vars, exec_pc, now, issued, evals_issued, s3, task_queue, hitl_queue,
                   exec_queue, selected_index, gui_pc, ingest_vars, history_vars>>

\* VisibilityTimeout=20 has passed for a received message: it can be
\* received again
VisibilityTimeout ==
    /\ \E m \in hitl_inflight : hitl_inflight' = hitl_inflight \ {m}
    /\ UNCHANGED <<fn_vars, exec_pc, now, issued, evals_issued, s3, task_queue, hitl_queue,
                   exec_queue, gui_vars, ingest_vars, history_vars>>

\* on_select: the reviewer selects a row of the list
OnSelect ==
    /\ gui_pc.at = "idle"
    /\ \E idx \in 0..(Len(messages) - 1) :
          /\ selected_index # Num(idx)
          /\ selected_index' = Num(idx)
    /\ UNCHANGED <<fn_vars, exec_pc, now, issued, evals_issued, s3, queue_vars, messages,
                   gui_pc, ingest_vars, history_vars>>

\* _selected_item: NoneV, or the selected entry (list indices start at 0)
_selected_item ==
    IF selected_index = NoneV THEN NoneV
    ELSE IF selected_index.num >= Len(messages) THEN NoneV
    ELSE messages[selected_index.num + 1]

\* _remove_from_ui: the first entry equal to item leaves the list
_remove_from_ui(item) ==
    LET idx == CHOOSE i \in 1..Len(messages) :
                  messages[i] = item /\ \A j \in 1..(i - 1) : messages[j] # item
    IN  [j \in 1..(Len(messages) - 1) |->
            IF j < idx THEN messages[j] ELSE messages[j + 1]]

\* the decision approve_selected and reject_selected build
Decision(item, decision) ==
    LET base == [task_id |-> item.task_id,
                 trace_id |-> item.trace_id,
                 decision |-> decision,
                 decided_by |-> "hitl_gui",
                 original_packet |-> item.payload]
    IN  IF decision = "REJECT"
        THEN Join(base, [evaluation |-> GetV(item.payload, "evaluation")])
        ELSE base

Idle == [at |-> "idle"]

\* approve_selected up to the send to the execution queue (when the reviewer
\* declines, or send_message raises, nothing changes)
ApproveSend ==
    /\ gui_pc.at = "idle"
    /\ _selected_item # NoneV
    /\ LET item == _selected_item
           decision == Decision(item, "APPROVE")
       IN  /\ Count(decisions_made, item.task_id) < MaxDecisions
           /\ exec_queue' = Append(exec_queue, decision)
           /\ decisions_made' = Counted(decisions_made, item.task_id, "APPROVE")
           /\ gui_pc' = [at |-> "approve_archive", item |-> item,
                         decision |-> decision]
    /\ UNCHANGED <<fn_vars, exec_pc, now, issued, evals_issued, s3, task_queue, hitl_queue,
                   hitl_inflight, messages, selected_index, ingest_vars, ingested,
                   exec_log>>

\* the tail of approve_selected and of reject_selected: _archive_decision,
\* _delete_hitl_message, _remove_from_ui.  Both helpers swallow a
\* BotoCoreError; any other exception ends the handler.
Finish(item, prefix, decision, archive, delete) ==
    LET reached_delete == archive # "client_error"
        reached_remove == reached_delete /\ delete # "client_error"
    IN  /\ archive = "client_error" => delete = "ok"
        /\ s3' = IF archive = "ok" THEN S3Put(prefix, item.task_id, decision) ELSE s3
        /\ hitl_queue' = IF reached_delete /\ delete = "ok"
                         THEN hitl_queue \ {item.raw} ELSE hitl_queue
        /\ hitl_inflight' = IF reached_delete /\ delete = "ok"
                            THEN hitl_inflight \ {item.raw} ELSE hitl_inflight
        /\ messages' = IF reached_remove THEN _remove_from_ui(item) ELSE messages
        /\ selected_index' = IF reached_remove THEN NoneV ELSE selected_index

\* approve_selected after the send
ApproveArchive ==
    /\ gui_pc.at = "approve_archive"
    /\ \E archive, delete \in CallOutcomes :
          Finish(gui_pc.item, "hitl_approvals", gui_pc.decision, archive, delete)
    /\ gui_pc' = Idle
    /\ UNCHANGED <<fn_vars, exec_pc, now, issued, evals_issued, task_queue, exec_queue,
                   ingest_vars, history_vars>>

\* reject_selected
RejectSelected ==
    /\ gui_pc.at = "idle"
    /\ _selected_item # NoneV
    /\ LET item == _selected_item
       IN  /\ Count(decisions_made, item.task_id) < MaxDecisions
           /\ \E archive, delete \in CallOutcomes :
                 /\ Finish(item, "hitl_rejections", Decision(item, "REJECT"),
                           archive, delete)
                 /\ decisions_made' =
                       IF archive = "ok"
                       THEN Counted(decisions_made, item.task_id, "REJECT")
                       ELSE decisions_made
    /\ UNCHANGED <<fn_vars, exec_pc, now, issued, evals_issued, task_queue, exec_queue,
                   gui_pc, ingest_vars, ingested, exec_log>>

-----------------------------------------------------------------------------
(* Execution stage: ExecWorker.run_once *)

\* the fingerprint of the execution record: the payload's, or the fallback
ExecFingerprintAlwaysRecomputed(idea_payload) ==
    [fingerprint |-> idea_fingerprint(idea_payload), recomputed |-> FALSE]

ExecFingerprint(idea_payload) ==
    LET fingerprint == GetS(idea_payload, "fingerprint")
    IN  IF FalsyS(fingerprint)
        THEN [fingerprint |-> idea_fingerprint(idea_payload), recomputed |-> TRUE]
        ELSE [fingerprint |-> fingerprint, recomputed |-> FALSE]

ExecutionRecord(body) ==
    LET trace_id == OrS(GetS(body, "trace_id"), "missing-trace")
        task_id == OrS(GetS(body, "task_id"), "missing-task")
        result == execute_task(body)
        original_packet == OrV(GetV(body, "original_packet"), EmptyDict)
        original_envelope ==
            OrV(OrV(GetV(original_packet, "original_payload"),
                    GetV(original_packet, "payload")), EmptyDict)
        idea_payload == OrV(GetV(original_envelope, "payload"), EmptyDict)
    IN  [exec_id |-> [of |-> task_id, run |-> Count(exec_log, task_id) + 1],
         task_id |-> task_id,
         trace_id |-> trace_id,
         status |-> GetS(result, "status"),
         notes |-> GetS(result, "notes"),
         approved_by |-> GetS(result, "approved_by"),
         executed_at |-> Time(now),
         executed_by |-> "exec_worker",
         evaluation |-> OrV(GetV(result, "evaluation"), EmptyDict),
         fingerprint |-> ExecFingerprint(idea_payload).fingerprint,
         original_idea |-> original_envelope,
         idea_payload |-> idea_payload]

\* one process of the exec worker: one run of run_once, which receives the
\* i-th message; put_object or delete_message may raise, which ends run_once
\* and the process with the message left on the queue
ExecRunOnce ==
    /\ \E i \in 1..Len(exec_queue), put, delete \in {"ok", "error"} :
          LET body == exec_queue[i]
              record == ExecutionRecord(body)
              task_id == record.task_id
          IN  /\ Count(exec_log, task_id) < MaxExecRuns
              /\ put = "error" => delete = "error"
              /\ s3' = IF put = "ok" THEN S3Put("executions", task_id, record)
                       ELSE s3
              /\ exec_log' =
                    IF put = "ok"
                    THEN Counted(exec_log, task_id,
                                 ExecFingerprint(record.idea_payload).recomputed)
                    ELSE exec_log
              /\ exec_pc' = IF put = "ok" /\ delete = "ok" THEN "returned"
                            ELSE "raised"
              /\ exec_queue' =
                    IF delete = "ok"
                    THEN [j \in 1..(Len(exec_queue) - 1) |->
                            IF j < i THEN exec_queue[j] ELSE exec_queue[j + 1]]
                    ELSE exec_queue
    /\ UNCHANGED <<fn_vars, now, issued, evals_issued, task_queue, hitl_queue,
                   hitl_inflight, gui_vars, ingest_vars, ingested, decisions_made>>

-----------------------------------------------------------------------------
(* The pipeline as a whole *)

StagesIdle ==
    /\ issued = 0
    /\ exec_pc = "none"
    /\ evals_issued = 0
    /\ task_queue = {}
    /\ hitl_queue = {}
    /\ hitl_inflight = {}
    /\ exec_queue = <<>>
    /\ messages = <<>>
    /\ selected_index = NoneV
    /\ gui_pc = Idle
    /\ ingest_pc = "none"
    /\ completed_fingerprints = {}
    /\ pending_fingerprints = {}
    /\ load_failed = {}
    /\ ingested = EmptyDict
    /\ decisions_made = EmptyDict
    /\ exec_log = EmptyDict

PipelineIdle ==
    /\ now = 0
    /\ s3 = EmptyBucket
    /\ StagesIdle

FnIdle ==
    /\ fn_arg = EmptyDict
    /\ fn_ret = EmptyDict
    /\ fn_called = ""

Init == FnIdle /\ PipelineIdle

\* Every stage, for at most MaxPipelineTasks tasks and MaxPipelineEvals runs of
\* the eval worker, with the clock standing still.
Next ==
    \/ issued < MaxPipelineTasks /\ IngestConstruct
    \/ issued < MaxPipelineTasks /\ IngestRunOnce /\ issued' <= MaxPipelineTasks
    \/ issued < MaxPipelineTasks /\ ProducerMain
    \/ evals_issued < MaxPipelineEvals /\ EvalRunOnce
    \/ PollQueue
    \/ VisibilityTimeout
    \/ OnSelect
    \/ ApproveSend
    \/ ApproveArchive
    \/ RejectSelected
    \/ ExecRunOnce

Spec == Init /\ [][Next]_vars

\* Ingestion and evaluation alone, for at most MaxTasks tasks, with the clock.
IngestNext ==
    \/ IngestConstruct
    \/ IngestRunOnce
    \/ Tick
    \/ EvalRunOnce

SpecIngest == Init /\ [][IngestNext]_vars

-----------------------------------------------------------------------------
(* The Suppression Index over a bucket that holds records of earlier runs *)

SuppressNow == 2 * SUPPRESSION_WINDOW_MINUTES
SuppressCutoff == SuppressNow - SUPPRESSION_WINDOW_MINUTES
PendingCutoff == SuppressNow - PENDING_SUPPRESSION_MINUTES

StoredObject(body, json, t) == [Body |-> body, Json |-> json, LastModified |-> Time(t)]

\* execution records of earlier runs, in the fields the index reads: dated
\* just outside the window, on its edge and inside it, with no executed_at and
\* with one that is no date; and objects whose content is no JSON object
OldExecutions ==
    {StoredObject([status |-> st.status, executed_at |-> st.at, fingerprint |-> fp],
                  "object", SuppressCutoff) :
        st \in {[status |-> "COMPLETED", at |-> Time(SuppressCutoff - 1)],
                [status |-> "COMPLETED", at |-> Time(SuppressCutoff)],
                [status |-> "COMPLETED", at |-> Time(SuppressCutoff + 1)],
                [status |-> "COMPLETED", at |-> BadTime],
                [status |-> "BLOCKED", at |-> Time(SuppressCutoff + 1)]},
        fp \in {_idea_fingerprint(SugDisk), _idea_fingerprint(SugCpu)}}
    \cup {StoredObject([status |-> "COMPLETED", fingerprint |-> fp],
                       "object", SuppressCutoff) :
             fp \in {_idea_fingerprint(SugDisk), _idea_fingerprint(SugCpu)}}
    \cup {StoredObject(EmptyDict, json, SuppressCutoff) : json \in {"array", "invalid"}}

\* evaluation records of earlier runs: as the eval worker writes them, and
\* with the envelope under original_payload, last modified inside the pending
\* window or before it
OldEvaluations ==
    {StoredObject([task_id |-> "old-1", evaluated_by |-> "eval_worker",
                   final_decision |-> "EXECUTE"], "object", PendingCutoff)}
    \cup {StoredObject([task_id |-> "old-1",
                        original_payload |->
                            [payload |-> [fingerprint |-> _idea_fingerprint(SugDisk)]]],
                       "object", t) : t \in {PendingCutoff - 1, PendingCutoff}}

Stores(keys, objects) == UNION {[ks -> objects] : ks \in SUBSET keys}

SuppressInit ==
    /\ FnIdle
    /\ StagesIdle
    /\ now = SuppressNow
    /\ \E ex \in Stores({"old-1", "old-2"}, OldExecutions),
          ev \in Stores({"old-1"}, OldEvaluations) :
          s3 = [EmptyBucket EXCEPT !.executions = ex, !.evaluations = ev]

\* one worker after the other, until one has pushed a task
SuppressNext ==
    \/ issued < MaxPipelineTasks /\ IngestConstruct
    \/ IngestRunOnceOn({<<s>> : s \in Suggestions})

SpecSuppress == SuppressInit /\ [][SuppressNext]_vars

Executed == DOMAIN s3.executions

\* the step in which a worker is constructed
Built == ingest_pc # "constructed" /\ ingest_pc' = "constructed"

Ideas == Suggestions \ {NoneV}

\* the execution records that are COMPLETED and carry fp
Carriers(fp) ==
    {t \in Executed :
        /\ s3.executions[t].Json = "object"
        /\ UpperStatus(_stable_text(GetS(s3.executions[t].Body, "status"))) = "COMPLETED"
        /\ GetS(s3.executions[t].Body, "fingerprint") = fp}

Dated(t) ==
    /\ GetV(s3.executions[t].Body, "executed_at") # NoneV
    /\ "time" \in DOMAIN s3.executions[t].Body.executed_at

\* C8: an idea was ingested by push_task and evaluated, its evaluation record
\* was stored within the last PENDING_SUPPRESSION_MINUTES, and no reviewer has
\* decided on it; an index built now, both loads succeeding, has the idea's
\* fingerprint in its pending set and is_duplicate is true for every
\* suggestion with that fingerprint.
C8_PendingIdeaSuppressed ==
    [][Built /\ load_failed' = {} =>
          \A t \in DOMAIN s3.evaluations :
              /\ t \in DOMAIN ingested
              /\ ingested[t].agent = "log_ingest_worker"
              /\ s3.evaluations[t].LastModified.time >= now - PENDING_SUPPRESSION_MINUTES
              /\ Count(decisions_made, t) = 0
              => /\ ingested[t].payload.fingerprint \in pending_fingerprints'
                 /\ \A s \in Ideas :
                       _idea_fingerprint(s) = ingested[t].payload.fingerprint =>
                           is_duplicate(s, completed_fingerprints',
                                        pending_fingerprints')]_vars

\* C9: for an index built at time now, every request to the store
\* succeeding: an idea whose fingerprint is in a COMPLETED execution record
\* with executed_at inside the last SUPPRESSION_WINDOW_MINUTES is a duplicate;
\* an idea whose fingerprint is only in COMPLETED records dated before the
\* window (and is not pending) is not.
C9_WindowDecidesDuplicate ==
    [][Built /\ load_failed' \cap {CompletedFailed(ListError),
                                   CompletedFailed(FetchError)} = {} =>
          \A s \in Ideas :
              LET fp == _idea_fingerprint(s)
                  cutoff == now - SUPPRESSION_WINDOW_MINUTES
                  dup == is_duplicate(s, completed_fingerprints', pending_fingerprints')
              IN  /\ (\E t \in Carriers(fp) :
                         Dated(t) /\ s3.executions[t].Body.executed_at.time >= cutoff)
                     => dup
                  /\ (/\ Carriers(fp) # {}
                      /\ \A t \in Carriers(fp) :
                            Dated(t) /\ s3.executions[t].Body.executed_at.time < cutoff
                      /\ fp \notin pending_fingerprints')
                     => ~dup]_vars

\* the two sets as a construction builds them when every request to the store
\* succeeds
FullCompleted ==
    _build_recent_completed_fingerprints("ok", Contents("executions", 0)).fingerprints
FullPending ==
    _build_recent_pending_fingerprints("ok", Contents("evaluations", 0)).fingerprints

\* run_once, given only the suggestion s, can push it
CanPush(s) ==
    ENABLED (/\ IngestRunOnceOn({<<s>>})
             /\ push_task(s, issued + 1) \in task_queue')

\* C19: a construction, whatever fails in the store, completes with sets that
\* hold no fingerprint a construction without failures would not hold (only
\* duplicates can be re-admitted, no other idea is suppressed); and run_once
\* of the constructed worker can push every suggestion whose fingerprint is
\* in neither set.
C19_IndexFailureUnderSuppresses ==
    /\ [][Built => /\ completed_fingerprints' \subseteq FullCompleted
                   /\ pending_fingerprints' \subseteq FullPending]_vars
    /\ [](ingest_pc = "constructed" /\ issued < MaxTasks =>
             \A s \in Ideas :
                 _idea_fingerprint(s) \notin
                     completed_fingerprints \cup pending_fingerprints
                 => CanPush(s))

\* a worker whose load failed has pushed an idea that a COMPLETED execution
\* record inside the window carries
C19_Witness ==
    /\ ingest_pc = "ran"
    /\ load_failed # {}
    /\ \E t \in DOMAIN ingested :
          \E c \in Carriers(ingested[t].payload.fingerprint) :
              /\ Dated(c)
              /\ s3.executions[c].Body.executed_at.time
                    >= now - SUPPRESSION_WINDOW_MINUTES
              /\ ingested[t].payload.fingerprint \in FullCompleted

\* C23: every fingerprint in the completed set of an index just built is
\* carried by an execution record with status COMPLETED whose executed_at is a
\* timestamp not older than SUPPRESSION_WINDOW_MINUTES; BLOCKED records and
\* records with no timestamp inside the window contribute nothing.
C23_CompletedSetOnlyRecentCompleted ==
    [][Built =>
          \A fp \in completed_fingerprints' :
              \E t \in Carriers(fp) :
                  /\ Dated(t)
                  /\ s3.executions[t].Body.executed_at.time
                        >= now - SUPPRESSION_WINDOW_MINUTES]_vars

\* the execution records that qualify for the completed set: COMPLETED, dated
\* inside the window, with a fingerprint
QualifyingCompleted ==
    {t \in Executed :
        /\ s3.executions[t].Json = "object"
        /\ ~FalsyS(GetS(s3.executions[t].Body, "fingerprint"))
        /\ t \in Carriers(s3.executions[t].Body.fingerprint)
        /\ Dated(t)
        /\ s3.executions[t].Body.executed_at.time >= now - SUPPRESSION_WINDOW_MINUTES}

\* the fingerprint an evaluations/ object carries for the pending set
PendingFingerprint(t) ==
    GetS(OrV(GetV(OrV(GetV(s3.evaluations[t].Body, "original_payload"), EmptyDict),
                  "payload"), EmptyDict),
         "fingerprint")

\* the evaluations/ objects that qualify for the pending set
QualifyingPending ==
    {t \in DOMAIN s3.evaluations :
        /\ s3.evaluations[t].Json = "object"
        /\ s3.evaluations[t].LastModified.time >= now - PENDING_SUPPRESSION_MINUTES
        /\ ~FalsyS(PendingFingerprint(t))}

NoRecord == "<no record>"

\* C24: when the listing succeeds, a set just built holds the fingerprint of
\* every qualifying record, but for the one record (if any) that could not be
\* fetched: a record that cannot be fetched, or whose content is malformed or
\* no JSON object, takes no other record out of the set.
C24_BadRecordSkippedAlone ==
    [][Built =>
          /\ CompletedFailed(ListError) \notin load_failed' =>
                \E u \in Executed \cup {NoRecord} :
                    \A t \in QualifyingCompleted \ {u} :
                        s3.executions[t].Body.fingerprint \in completed_fingerprints'
          /\ PendingFailed(ListError) \notin load_failed' =>
                \E u \in DOMAIN s3.evaluations \cup {NoRecord} :
                    \A t \in QualifyingPending \ {u} :
                        PendingFingerprint(t) \in pending_fingerprints']_vars

\* the step in which run_once of a constructed worker runs
RanOnce == ingest_pc = "constructed" /\ ingest_pc' # "constructed"

\* C30: the messages one run_once pushes to the task queue have pairwise
\* distinct fingerprints: two suggestions of one batch with the same
\* normalized title, recommended_action and description are not both sent.
C30_OneTaskPerFingerprintInBatch ==
    [][RanOnce =>
          \A m1, m2 \in task_queue' \ task_queue :
              m1.payload.fingerprint = m2.payload.fingerprint => m1 = m2]_vars

\* C25: run_once sends no message whose fingerprint is in the completed or
\* the pending set of the worker, and leaves both sets and the store as they
\* were.
C25_IndexReadOnlyInBatch ==
    [][RanOnce =>
          /\ \A m \in task_queue' \ task_queue :
                m.payload.fingerprint
                    \notin completed_fingerprints \cup pending_fingerprints
          /\ completed_fingerprints' = completed_fingerprints
          /\ pending_fingerprints' = pending_fingerprints
          /\ s3' = s3]_vars

\* a worker that holds the fingerprint of one idea has run and has pushed
\* another idea only
C25_Witness ==
    /\ ingest_pc = "ran"
    /\ _idea_fingerprint(SugDisk) \in completed_fingerprints
    /\ task_queue # {}
    /\ \A m \in task_queue :
          m.payload.fingerprint = _idea_fingerprint(SugCpu)

-----------------------------------------------------------------------------
(* Claims on the pipeline *)

\* C2: whenever the stored execution record of a task has status COMPLETED,
\* the store holds an approval record hitl_approvals/<task_id> with decision
\* APPROVE for that task (looked at when the console is in no handler).
C2_CompletedHasApprovalRecord ==
    \A t \in Executed :
        gui_pc = Idle /\ s3.executions[t].Body.status = "COMPLETED" =>
            /\ t \in DOMAIN s3.hitl_approvals
            /\ s3.hitl_approvals[t].Body.decision = "APPROVE"

\* C3: at most one Approval Decision is ever issued for a task_id (sent to the
\* execution queue, or archived as a rejection), whatever the console polls
\* and the reviewer does.
C3_AtMostOneDecision ==
    \A t \in DOMAIN decisions_made : decisions_made[t].n <= 1

\* C4: for a task that was decided once, redelivery of its message on the
\* execution queue does not execute it again: at most one execution record
\* is ever written for its task_id.
C4_AtMostOneExecution ==
    \A t \in DOMAIN exec_log :
        Count(decisions_made, t) <= 1 => exec_log[t].n <= 1

\* C10: the fingerprint of the execution record of a task ingested by
\* push_task is the one push_task assigned, and the exec worker takes its
\* fallback only for a task whose payload carries no fingerprint.
C10_FingerprintPropagated ==
    \A t \in Executed :
        t \in DOMAIN ingested =>
            /\ "fingerprint" \in DOMAIN ingested[t].payload =>
                  s3.executions[t].Body.fingerprint
                      = ingested[t].payload.fingerprint
            /\ t \in DOMAIN exec_log /\ exec_log[t].flag =>
                  "fingerprint" \notin DOMAIN ingested[t].payload

\* an idea whose recommended_action is null went from push_task to its
\* execution record (the fallback would give it another digest)
C10_Witness ==
    \E t \in Executed :
        /\ t \in DOMAIN ingested
        /\ ingested[t].agent = "log_ingest_worker"
        /\ ingested[t].payload.recommended_action = PyNone
        /\ ingested[t].payload.fingerprint = _idea_fingerprint(SugDisk)
        /\ idea_fingerprint(ingested[t].payload) # ingested[t].payload.fingerprint
        /\ s3.executions[t].Body.status = "COMPLETED"
        /\ s3.executions[t].Body.fingerprint = ingested[t].payload.fingerprint

\* C26: no step writes an execution record with status COMPLETED for a task
\* whose REJECT decision is archived under hitl_rejections/, whatever the
\* console polls and the reviewer does.
C26_RejectedNeverCompleted ==
    [][\A t \in DOMAIN s3.hitl_rejections :
          Count(exec_log', t) > Count(exec_log, t) =>
              s3'.executions[t].Body.status # "COMPLETED"]_vars

\* the Evaluation Result of the task ingested as t
EngineResultOf(t) == DeterministicEvaluationEngine_evaluate(ingested[t])

\* the tasks the engine rejects
RejectedTasks ==
    {t \in DOMAIN ingested :
        /\ "raised" \notin DOMAIN EngineResultOf(t)
        /\ GetSD(EngineResultOf(t), "final_decision", "REJECT") # "EXECUTE"}

\* the tasks the engine passes
PassedTasks ==
    {t \in DOMAIN ingested :
        /\ "raised" \notin DOMAIN EngineResultOf(t)
        /\ GetSD(EngineResultOf(t), "final_decision", "REJECT") = "EXECUTE"}

\* C27: when a step deletes from the task queue the message of a task whose
\* evaluation is EXECUTE, a HITL packet for its task_id is on the HITL queue.
C27_PassedTaskReachesHitl ==
    [][\A m \in task_queue :
          (m \notin task_queue' /\ m.task_id \in PassedTasks) =>
              \E packet \in hitl_queue' : packet.task_id = m.task_id]_vars

\* C13: a run of EvalWorker.run_once deletes the task message only when the
\* records it had to store are stored: the evaluation record of this run,
\* and for a rejected task the rejection record of this run.
C13_FailedWriteKeepsMessage ==
    [][\A m \in task_queue :
          m \notin task_queue' =>
              /\ m.task_id \in DOMAIN s3'.evaluations
              /\ s3'.evaluations[m.task_id].Body.eval_id = EvalIdOf(evals_issued')
              /\ m.task_id \in RejectedTasks =>
                    /\ m.task_id \in DOMAIN s3'.rejections
                    /\ s3'.rejections[m.task_id].Body.evaluation.eval_id
                          = EvalIdOf(evals_issued')]_vars

\* C16: no run of a worker stage is left by an exception that ends its
\* process: the exec worker and the log-ingest worker always return from
\* run_once.
C16_NoErrorTerminatesProcess ==
    /\ exec_pc # "raised"
    /\ ingest_pc # "raised"

\* C17: a task the engine rejects has no HITL packet and no execution record,
\* and once its message has left the task queue its rejection record is
\* archived.
C17_RejectEndsInEvaluation ==
    \A t \in RejectedTasks :
        /\ \A m \in hitl_queue : m.task_id # t
        /\ t \notin Executed
        /\ (\A m \in task_queue : m.task_id # t) => t \in DOMAIN s3.rejections

\* C18: a stored evaluation record never changes: after any step the record
\* evaluations/<task_id> is the one first written, eval_id and evaluated_at
\* included.
C18_EvaluationRecordImmutable ==
    [][\A t \in DOMAIN s3.evaluations :
          /\ t \in DOMAIN s3'.evaluations
          /\ s3'.evaluations[t].Body = s3.evaluations[t].Body]_vars

-----------------------------------------------------------------------------
(* The eval worker loop with collaborators that work *)

\* an idea for which the idea generator gave no confidence
SugNoConfidence ==
    [title |-> "Cpu", description |-> "e", severity |-> "high",
     operational_risk |-> Num(200), confidence |-> NoneV,
     recommended_action |-> PyNone]

LiveSuggestions == {SugDisk, SugCpu, SugNoConfidence}

LiveBatches ==
    {<<a>> : a \in LiveSuggestions}
    \cup {<<a, b>> : a \in LiveSuggestions, b \in LiveSuggestions}

\* run_forever: run_once again and again, every call to the store and to the
\* queues succeeding
EvalLoop == EvalRunOnceOn({"ok"})

LiveNext ==
    \/ IngestConstruct
    \/ IngestRunOnceOn(LiveBatches)
    \/ EvalLoop

\* the loop is never stopped: a run of run_once that can change something
\* is eventually made
SpecLive == Init /\ [][LiveNext]_vars /\ WF_vars(EvalLoop)

\* the messages push_task can send
LiveMessages ==
    {push_task(idea, n) : idea \in LiveSuggestions, n \in 1..MaxTasks}

\* the message has left the task queue and its task has a HITL packet or a
\* rejection record
Handled(m) ==
    /\ m \notin task_queue
    /\ \/ \E packet \in hitl_queue : packet.task_id = m.task_id
       \/ m.task_id \in DOMAIN s3.rejections

\* C28: with the eval worker loop running and every collaborator working,
\* every message on the task queue is eventually deleted from it, its task
\* having a HITL packet or a rejection record.
C28_EveryMessageEventuallyHandled ==
    <>[](\A m \in LiveMessages : m \in task_queue \/ m.task_id \in DOMAIN ingested
                                    => Handled(m))

-----------------------------------------------------------------------------
(* One task whose message the eval worker may receive more than once *)

MaxThreadListed == 1

\* Every stage, for at most MaxPipelineTasks tasks and MaxEvals runs of the
\* eval worker, with a console that lists at most MaxThreadListed entries.
ThreadNext ==
    \/ issued < MaxPipelineTasks /\ IngestConstruct
    \/ issued < MaxPipelineTasks /\ IngestRunOnce /\ issued' <= MaxPipelineTasks
    \/ issued < MaxPipelineTasks /\ ProducerMain
    \/ EvalRunOnce
    \/ Len(messages) < MaxThreadListed /\ PollQueue
    \/ OnSelect
    \/ ApproveSend
    \/ ApproveArchive
    \/ RejectSelected
    \/ ExecRunOnce

SpecThread == Init /\ [][ThreadNext]_vars

\* rec carries the ids generated when task t was ingested
Threaded(rec, t) ==
    /\ t \in DOMAIN ingested
    /\ GetS(rec, "task_id") = ingested[t].task_id
    /\ GetS(rec, "trace_id") = ingested[t].trace_id

\* C12: every evaluation record, rejection record, HITL packet, approval
\* decision (on the execution queue and archived) and execution record
\* carries the task_id and the trace_id generated at ingestion, however often
\* the task message is delivered to the eval worker.
C12_IdsThreaded ==
    /\ \A prefix \in DOMAIN s3 : \A t \in DOMAIN s3[prefix] :
          /\ t \in DOMAIN ingested
          /\ ingested[t].task_id = t
          /\ Threaded(s3[prefix][t].Body, t)
    /\ \A t \in DOMAIN s3.rejections :
          Threaded(s3.rejections[t].Body.evaluation, t)
    /\ \A m \in hitl_queue :
          /\ Threaded(m, m.task_id)
          /\ Threaded(m.evaluation, m.task_id)
    /\ \A i \in 1..Len(messages) :
          Threaded(messages[i], messages[i].payload.task_id)
    /\ \A i \in 1..Len(exec_queue) :
          /\ Threaded(exec_queue[i], exec_queue[i].original_packet.task_id)
          /\ Threaded(exec_queue[i].original_packet.evaluation,
                      exec_queue[i].task_id)

\* the task message was evaluated twice, approved and executed
C12_Witness ==
    /\ evals_issued = 2
    /\ \E t \in Executed \cap DOMAIN ingested \cap DOMAIN s3.evaluations :
          /\ s3.executions[t].Body.status = "COMPLETED"
          /\ s3.executions[t].Body.task_id = ingested[t].task_id
          /\ s3.executions[t].Body.trace_id = ingested[t].trace_id
          /\ s3.evaluations[t].Body.eval_id = EvalIdOf(2)
          /\ t \in DOMAIN s3.hitl_approvals

-----------------------------------------------------------------------------
(* Specification of the Execution Gate as a function of its envelope *)

GateDecisions == {"APPROVE", "REJECT", PyNone, "", "approve", "APPROVED", "EXECUTE"}
GateDeciders == {"hitl_gui", "policy_engine"}
GateEvaluations ==
    {NoneV, [final_decision |-> "EXECUTE", confidence_score |-> Num(900)]}

Envelopes ==
    {Join(Join(a, b), c) : a \in OptKey("decision", GateDecisions),
                           b \in OptKey("decided_by", GateDeciders),
                           c \in OptKey("evaluation", GateEvaluations)}

GateInit ==
    /\ fn_arg \in Envelopes
    /\ fn_ret = EmptyDict
    /\ fn_called = ""
    /\ PipelineIdle

CallExecuteTask ==
    /\ fn_called = ""
    /\ fn_ret' = execute_task(fn_arg)
    /\ fn_called' = "execute_task"
    /\ UNCHANGED <<fn_arg, pipe_vars>>

GateNext == CallExecuteTask

SpecGate == GateInit /\ [][GateNext]_vars

\* C1: execute_task returns COMPLETED if and only if the envelope's decision
\* is exactly the string "APPROVE"; for every other value, None or a missing
\* field it returns BLOCKED.
C1_GateCompletedIffApprove ==
    fn_called = "execute_task" =>
        /\ fn_ret.status \in {"COMPLETED", "BLOCKED"}
        /\ fn_ret.status = "COMPLETED" <=>
              ("decision" \in DOMAIN fn_arg /\ fn_arg.decision = "APPROVE")

\* a near miss of the approval string has been blocked
C1_Witness ==
    /\ fn_called = "execute_task"
    /\ "decision" \in DOMAIN fn_arg
    /\ fn_arg.decision = "approve"
    /\ fn_ret.status = "BLOCKED"

-----------------------------------------------------------------------------
(* Specification of the two fingerprint functions on one idea payload *)

\* values of a text field of an idea: null, and strings with mixed case and
\* surrounding whitespace
IdeaTitles == {PyNone, "Disk Full", " Disk Full ", " disk full ", "Disk Fall", "Cpu"}
IdeaActions == {PyNone, "Rotate Logs", "Rotate Log"}
IdeaDescriptions == {PyNone, "d", "e"}

IdeaPayloads ==
    {Join(Join(a, b), c) : a \in OptKey("title", IdeaTitles),
                           b \in OptKey("recommended_action", IdeaActions),
                           c \in OptKey("description", IdeaDescriptions)}

FingerprintInit ==
    /\ fn_arg \in IdeaPayloads
    /\ fn_ret = EmptyDict
    /\ fn_called = ""
    /\ PipelineIdle

\* the digest the ingest worker assigns and the one the exec worker's fallback
\* computes, for the same payload
CallFingerprints ==
    /\ fn_called = ""
    /\ fn_ret' = [assigned |-> _idea_fingerprint(fn_arg),
                  fallback |-> idea_fingerprint(fn_arg)]
    /\ fn_called' = "fingerprint"
    /\ UNCHANGED <<fn_arg, pipe_vars>>

FingerprintNext == CallFingerprints

SpecFingerprint == FingerprintInit /\ [][FingerprintNext]_vars

\* C11: for every idea payload, with title, recommended_action or description
\* absent, null, or with surrounding whitespace or mixed case, the fallback of
\* the exec worker yields the digest the ingest worker assigns.
C11_FallbackEqualsAssignment ==
    fn_called = "fingerprint" => fn_ret.fallback = fn_ret.assigned

IdeaFields == {"title", "recommended_action", "description"}

\* a field of an idea, trimmed and lower-cased
NormalizedField(idea, k) == Lower(_stable_text(GetS(idea, k)))

\* the fields in which the normalized texts of two ideas differ
ChangedFields(a, b) ==
    {k \in IdeaFields : NormalizedField(a, k) # NormalizedField(b, k)}

\* C22: an idea whose three normalized fields are those of the fingerprinted
\* idea has the same fingerprint, and an idea that differs from it in one
\* field (by a single character, or more) has another fingerprint.
C22_FingerprintFollowsNormalizedFields ==
    fn_called = "fingerprint" =>
        \A other \in IdeaPayloads :
            /\ ChangedFields(fn_arg, other) = {} =>
                  _idea_fingerprint(other) = fn_ret.assigned
            /\ Cardinality(ChangedFields(fn_arg, other)) = 1 =>
                  _idea_fingerprint(other) # fn_ret.assigned

\* "Disk Full" was fingerprinted: " disk full " has its digest, and "Disk
\* Fall", one character away, has another
C22_Witness ==
    /\ fn_called = "fingerprint"
    /\ fn_arg = [title |-> "Disk Full", recommended_action |-> "Rotate Logs",
                 description |-> "d"]
    /\ _idea_fingerprint([fn_arg EXCEPT !.title = " disk full "]) = fn_ret.assigned
    /\ _idea_fingerprint([fn_arg EXCEPT !.title = "Disk Fall"]) # fn_ret.assigned
    /\ _idea_fingerprint([fn_arg EXCEPT !.description = "e"]) # fn_ret.assigned
    /\ _idea_fingerprint([fn_arg EXCEPT !.recommended_action = "Rotate Log"])
          # fn_ret.assigned

-----------------------------------------------------------------------------
(* Specification of the Evaluation Engine as a function of a task message *)

ProducerIdea == "Build distributed agent bus using SQS"

EngineSeverities == {"high", "medium", "low", "High", PyNone}
EngineRisks == {Num(0), Num(200), Num(250), Num(1000), NumText(800), NoneV, NotANumber}
EngineConfidences ==
    {Num(0), Num(175), Num(450), Num(500), Num(800), Num(1000), NoneV, NotANumber}

OpsPayloads ==
    {Join(Join(a, b), c) : a \in OptKey("severity", EngineSeverities),
                           b \in OptKey("operational_risk", EngineRisks),
                           c \in OptKey("confidence", EngineConfidences)}

RndPayloads ==
    {Join(Join(a, b), c) : a \in OptKey("idea", {ProducerIdea, "Cpu", ""}),
                           b \in OptKey("title", {"Cpu"}),
                           c \in OptKey("priority", {"high", "low", "medium", PyNone})}

EngineInputs ==
    {Join(t, p) : t \in OptKey("task_type", {"LOG_SUGGESTION", "log_suggestion",
                                            "RND_ANALYSIS", PyNone}),
                  p \in OptKey("payload", OpsPayloads \cup RndPayloads \cup {NoneV})}

EngineInit ==
    /\ fn_arg \in EngineInputs
    /\ fn_ret = EmptyDict
    /\ fn_called = ""
    /\ PipelineIdle

CallEngineEvaluate ==
    /\ fn_called = ""
    /\ fn_ret' = DeterministicEvaluationEngine_evaluate(fn_arg)
    /\ fn_called' = "evaluate"
    /\ UNCHANGED <<fn_arg, pipe_vars>>

\* PolicyEngine.evaluate on the Evaluation Result the engine returned
PolicyOfEvaluate == "PolicyEngine.evaluate of evaluate"

CallPolicyOnResult ==
    /\ fn_called = "evaluate"
    /\ "raised" \notin DOMAIN fn_ret
    /\ fn_ret' = PolicyEngine_evaluate(fn_ret)
    /\ fn_called' = PolicyOfEvaluate
    /\ UNCHANGED <<fn_arg, pipe_vars>>

EngineNext == CallEngineEvaluate \/ CallPolicyOnResult

SpecEngine == EngineInit /\ [][EngineNext]_vars

\* the payload evaluate scores, and the model it scores it with
EnginePayload(task_payload) ==
    OrV(GetVD(task_payload, "payload", EmptyDict), EmptyDict)
OpsRouted(task_payload) ==
    \/ EVAL_MODE = "ops"
    \/ EVAL_MODE = "auto"
       /\ Upper(OrS(GetS(task_payload, "task_type"), "")) = "LOG_SUGGESTION"

\* a numeric field that is there and is a number (or the text of one)
WellFormed(payload, k) == k \in DOMAIN payload /\ FloatRaises(payload[k]) = ""
\* a numeric field that is there and is null or not numeric
Malformed(payload, k) == k \in DOMAIN payload /\ FloatRaises(payload[k]) # ""

\* a required field is absent, and no field that is there is malformed
MissingRequired(task_payload) ==
    LET payload == EnginePayload(task_payload)
    IN  IF OpsRouted(task_payload)
        THEN /\ {"severity", "operational_risk", "confidence"} \ DOMAIN payload # {}
             /\ ~Malformed(payload, "operational_risk")
             /\ ~Malformed(payload, "confidence")
        ELSE {"idea", "title"} \cap DOMAIN payload = {}

\* C14: for every task whose payload lacks a required field (an ops payload
\* without severity, operational_risk or confidence; an R&D payload without
\* idea text; an empty payload), evaluate does not raise and returns
\* final_decision REJECT.
C14_MissingFieldsRejected ==
    (fn_called = "evaluate" /\ MissingRequired(fn_arg)) =>
        /\ "raised" \notin DOMAIN fn_ret
        /\ fn_ret.final_decision = "REJECT"

\* C15: in the ops model, a null or non-numeric operational_risk or
\* confidence makes evaluate fail with ScoringInputError, and no result
\* reports a risk or a confidence for a payload that has none.
C15_MalformedNumbersFail ==
    (fn_called = "evaluate" /\ OpsRouted(fn_arg)) =>
        LET payload == EnginePayload(fn_arg)
        IN  /\ (Malformed(payload, "operational_risk") \/ Malformed(payload, "confidence"))
               => fn_ret = Raised("ScoringInputError")
            /\ ("operational_risk" \notin DOMAIN payload /\ "raised" \notin DOMAIN fn_ret)
               => "operational_risk" \notin DOMAIN fn_ret.scoring
            /\ ("confidence" \notin DOMAIN payload /\ "raised" \notin DOMAIN fn_ret)
               => "llm_confidence" \notin DOMAIN fn_ret.scoring

\* the R&D example: the producer's idea text with priority high
RndExample(task_payload) ==
    /\ ~OpsRouted(task_payload)
    /\ GetS(EnginePayload(task_payload), "idea") = ProducerIdea
    /\ GetS(EnginePayload(task_payload), "priority") = "high"

\* C20 as stated: for the idea text "... distributed agent bus using SQS" with
\* priority high, feasibility = 0.9, alignment = 0.95, complexity risk = 0.3,
\* resource cost = 0.6, the raw weighted score is 0.5475, the score after the
\* priority bonus 0.6475, and the decision EXECUTE.
C20_RndExampleAsStated ==
    (fn_called = "evaluate" /\ RndExample(fn_arg)) =>
        LET l == RndLocals(EnginePayload(fn_arg))
        IN  /\ l.feasibility = 900 /\ l.alignment = 950
            /\ l.complexity = 300 /\ l.cost = 600
            /\ l.weighted = 54750
            /\ l.adjusted = 64750
            /\ fn_ret.final_decision = "EXECUTE"

\* C20 amended: with the same sub-scores the raw weighted score is 0.5125 and
\* the score after the priority bonus 0.6125 (reported as 0.612); the decision
\* is EXECUTE.
C20_RndExample ==
    (fn_called = "evaluate" /\ RndExample(fn_arg)) =>
        LET l == RndLocals(EnginePayload(fn_arg))
        IN  /\ l.feasibility = 900 /\ l.alignment = 950
            /\ l.complexity = 300 /\ l.cost = 600
            /\ l.weighted = 51250
            /\ l.adjusted = 61250
            /\ fn_ret.scoring = [feasibility |-> Num(900), alignment |-> Num(950),
                                 complexity_risk |-> Num(300),
                                 resource_cost |-> Num(600)]
            /\ fn_ret.confidence_score = Num(612)
            /\ fn_ret.final_decision = "EXECUTE"

\* the example has been evaluated
C20_Witness ==
    /\ fn_called = "evaluate"
    /\ RndExample(fn_arg)
    /\ GetS(fn_arg, "task_type") = "RND_ANALYSIS"
    /\ fn_ret.evaluation_model = "deterministic_rnd_v2"
    /\ fn_ret.final_decision = "EXECUTE"

\* an ops input with one of the three severities and two numbers
OpsNumeric(task_payload) ==
    LET payload == EnginePayload(task_payload)
    IN  /\ OpsRouted(task_payload)
        /\ {"severity", "operational_risk", "confidence"} \subseteq DOMAIN payload
        /\ payload.severity \in {"high", "medium", "low"}
        /\ "num" \in DOMAIN payload.operational_risk
        /\ "num" \in DOMAIN payload.confidence

\* confidence + bonus(severity) - 0.30 * risk clamped to [0, 1], as a number
\* of 1/ScoreOne
OpsScoreStated(payload) ==
    LET bonus == CASE payload.severity = "high" -> 40000
                   [] payload.severity = "medium" -> 20000
                   [] payload.severity = "low" -> 5000
    IN  Clamp(payload.confidence.num * 100 + bonus
              - payload.operational_risk.num * 30)

\* C21: for an ops input with severity high, medium or low and numeric
\* confidence and operational_risk, final_decision is EXECUTE exactly when
\* confidence + bonus - 0.30 * risk, clamped to [0, 1], is at least 0.50, and
\* confidence_score is that score rounded to three places, inside [0, 1].
C21_OpsFormula ==
    (fn_called = "evaluate" /\ OpsNumeric(fn_arg)) =>
        LET stated == OpsScoreStated(EnginePayload(fn_arg))
        IN  /\ "raised" \notin DOMAIN fn_ret
            /\ fn_ret.final_decision = "EXECUTE" <=> stated >= 50000
            /\ fn_ret.confidence_score = Num(Round3(stated))
            /\ fn_ret.confidence_score.num \in 0..1000

\* C31: in every Evaluation Result the engine returns, final_decision is
\* EXECUTE exactly when the stored confidence_score, the score rounded to three
\* places, is at least 0.60 for the R&D model and at least 0.50 for the ops
\* model.
C31_DecisionAgreesWithStoredScore ==
    (fn_called = "evaluate" /\ "raised" \notin DOMAIN fn_ret) =>
        (fn_ret.final_decision = "EXECUTE"
            <=> fn_ret.confidence_score.num >=
                    (IF fn_ret.evaluation_model = "deterministic_rnd_v2"
                     THEN 600 ELSE 500))

\* C29: for every Evaluation Result the engine returns, of the R&D model or
\* of the ops model, PolicyEngine.evaluate returns policy_mode REQUIRE_HITL or
\* REJECT, never AUTO_EXECUTE.
C29_EngineResultsNeverAutoExecute ==
    fn_called = PolicyOfEvaluate =>
        fn_ret.policy_mode \in {"REQUIRE_HITL", "REJECT"}

\* an EXECUTE of the engine with confidence_score 1.0 went through the policy
C29_Witness ==
    /\ fn_called = PolicyOfEvaluate
    /\ fn_ret.evaluation_snapshot.final_decision = "EXECUTE"
    /\ fn_ret.evaluation_snapshot.confidence_score = Num(1000)
    /\ fn_ret.policy_mode = "REQUIRE_HITL"

-----------------------------------------------------------------------------
(* Specification of the Policy Engine as a function of an evaluation *)

PolicyConfidences == {0, 700, 849, 850, 900, 1000}
PolicyComplexities == {200, 400, 401}
PolicyCosts == {100, 400, 600}

\* the breakdown maps: the R&D shape and the ops shape
Breakdowns ==
    {[feasibility |-> Num(900), alignment |-> Num(950),
      complexity_risk |-> Num(x), resource_cost |-> Num(c)] :
        x \in PolicyComplexities, c \in PolicyCosts}
    \cup {[severity |-> "high", operational_risk |-> Num(200),
           llm_confidence |-> Num(900)]}

PolicyInputs ==
    {Join(Join(a, b), c) :
        a \in OptKey("final_decision", {"EXECUTE", "REJECT"}),
        b \in OptKey("confidence_score", {Num(x) : x \in PolicyConfidences}),
        c \in OptKey("scoring", Breakdowns) \cup OptKey("scoring_breakdown", Breakdowns)}

PolicyInit ==
    /\ fn_arg \in PolicyInputs
    /\ fn_ret = EmptyDict
    /\ fn_called = ""
    /\ PipelineIdle

CallPolicyEvaluate ==
    /\ fn_called = ""
    /\ fn_ret' = PolicyEngine_evaluate(fn_arg)
    /\ fn_called' = "PolicyEngine.evaluate"
    /\ UNCHANGED <<fn_arg, pipe_vars>>

PolicyNext == CallPolicyEvaluate

SpecPolicy == PolicyInit /\ [][PolicyNext]_vars

\* the Evaluation Engine returns its breakdown under the key "scoring"
EngineShaped(e) ==
    /\ "scoring" \in DOMAIN e
    /\ "scoring_breakdown" \notin DOMAIN e
    /\ "complexity_risk" \in DOMAIN e.scoring
    /\ "resource_cost" \in DOMAIN e.scoring
    /\ "confidence_score" \in DOMAIN e

\* C6: for an evaluation of the engine's shape that is not a REJECT, the
\* policy mode is AUTO_EXECUTE if and only if confidence >= 0.85 and the
\* breakdown's complexity_risk <= 0.4 and resource_cost <= 0.4, and
\* REQUIRE_HITL otherwise.
C6_AutoExecuteIffThresholds ==
    (/\ fn_called = "PolicyEngine.evaluate"
     /\ EngineShaped(fn_arg)
     /\ GetS(fn_arg, "final_decision") # "REJECT") =>
        LET meets == /\ fn_arg.confidence_score.num >= 850
                     /\ fn_arg.scoring.complexity_risk.num <= 400
                     /\ fn_arg.scoring.resource_cost.num <= 400
        IN  fn_ret.policy_mode = IF meets THEN "AUTO_EXECUTE" ELSE "REQUIRE_HITL"

\* C7: an evaluation with final_decision REJECT gets policy mode REJECT,
\* whatever its confidence, complexity risk and resource cost.
C7_RejectIsHardVeto ==
    (/\ fn_called = "PolicyEngine.evaluate"
     /\ GetS(fn_arg, "final_decision") = "REJECT") =>
        fn_ret.policy_mode = "REJECT"

\* a REJECT that meets every auto-execute threshold, as the engine reads them
C7_Witness ==
    /\ fn_called = "PolicyEngine.evaluate"
    /\ GetS(fn_arg, "final_decision") = "REJECT"
    /\ "scoring_breakdown" \in DOMAIN fn_arg
    /\ "confidence_score" \in DOMAIN fn_arg
    /\ fn_arg.confidence_score.num >= auto_execute_threshold
    /\ GetVD(fn_arg.scoring_breakdown, "complexity_risk", Num(1000)).num
          <= max_allowed_complexity_risk
    /\ GetVD(fn_arg.scoring_breakdown, "resource_cost", Num(1000)).num
          <= max_allowed_resource_cost
    /\ fn_ret.policy_mode = "REJECT"

====
